---- MODULE Spec2Model ----
(***************************************************************************)
(* Control-flow flattening (lib/Transforms/Obfuscate/Flattening.cpp).      *)
(*                                                                         *)
(* The model has two parts.  The first is Flattening::flatten itself, run  *)
(* statement by statement on one procedure (validation, entry split, label *)
(* draw, dispatch construction, shuffle and case installation, successor   *)
(* rewriting, fixStack, return).  The second is the execution of the       *)
(* procedure flatten produced, side by side with the execution of the      *)
(* procedure it was given, both fed the same branch-condition values.      *)
(*                                                                         *)
(* A procedure is its block order (layout) and one record per block        *)
(* (blk).  Blocks are numbered 0, 1, ... in the order of the procedure as  *)
(* given; block 0 is the entry block.  Blocks created by flatten get the   *)
(* next free numbers.  An i32 is a pair <<high half, low half>> of 16-bit  *)
(* numbers, so that every intermediate value stays below 2^31.             *)
(*                                                                         *)
(* Specifications:                                                         *)
(*   Spec           flatten on every well-formed procedure of up to        *)
(*                  MaxBlocks blocks, and the run of its result;           *)
(*   MalformedSpec  the same on procedures in which a branch may name the  *)
(*                  entry block;                                           *)
(*   SpecFlatten    flatten alone on the procedures of Spec, without the   *)
(*                  run of its result;                                     *)
(*   SpecTwice      flatten run a second time on its own result;           *)
(*   SpecArith      the next-state arithmetic on arbitrary labels.         *)
(***************************************************************************)
EXTENDS Integers, Sequences, FiniteSets, TLC

\* ------------------------------------------------------------------ bounds

\* The largest number of blocks of a procedure given to flatten.
MaxBlocks == 3

\* The number of distinct 32-bit values the label generator may draw.
NumLabels == 3

\* The largest number of blocks of a procedure in which branches may name the
\* entry block (MalformedSpec).
MalformedBlocks == 2

\* The largest number of blocks of a procedure flatten is run on twice
\* (SpecTwice).
TwiceBlocks == 2

\* The number of 16-bit patterns SpecArith builds its i32 inputs from.
NumHalves == 4

\* ------------------------------------------------------------- 32-bit words

\* Width of the state variable and of every label (Type::getInt32Ty).
W == 32

HalfBits == W \div 2

HalfMod == 2 ^ HalfBits

Zero32 == <<0, 0>>

Ones32 == <<HalfMod - 1, HalfMod - 1>>

RECURSIVE XorBits(_, _, _)
XorBits(a, b, n) ==
    IF n = 0 THEN 0
    ELSE (((a % 2) + (b % 2)) % 2) + 2 * XorBits(a \div 2, b \div 2, n - 1)

RECURSIVE AndBits(_, _, _)
AndBits(a, b, n) ==
    IF n = 0 THEN 0
    ELSE ((a % 2) * (b % 2)) + 2 * AndBits(a \div 2, b \div 2, n - 1)

\* BinaryOperator::Xor on two i32.
Xor32(x, y) == <<XorBits(x[1], y[1], HalfBits), XorBits(x[2], y[2], HalfBits)>>

\* BinaryOperator::And on two i32.
And32(x, y) == <<AndBits(x[1], y[1], HalfBits), AndBits(x[2], y[2], HalfBits)>>

\* SExtInst from i1 to i32: all ones for true, zero for false.
SExt(c) == IF c THEN Ones32 ELSE Zero32

\* Values of uniform_int_distribution<uint32_t>(0, UINT32_MAX) the model draws.
LabelPool ==
    << Ones32, Zero32, <<57005, 48879>>, <<32768, 1>>, <<0, 1>>,
       <<43690, 21845>>, <<1, 0>> >>

PoolSize(n) == IF n < Len(LabelPool) THEN n ELSE Len(LabelPool)

Labels == {LabelPool[i] : i \in 1..PoolSize(NumLabels)}

\* What a read of bbIndex past its end may return: any i32.
Garbage == {LabelPool[i] : i \in 1..PoolSize(NumLabels + 1)}

\* ---------------------------------------------------------------- sequences

\* Element i of a std::vector (indices from 0).
At(s, i) == s[i + 1]

\* std::distance(v.begin(), std::find(v.begin(), v.end(), x)): the index of the
\* first x in v, and v.size() when x is not in v.
FindIndex(v, x) ==
    IF \E j \in 1..Len(v) : v[j] = x
    THEN (CHOOSE j \in 1..Len(v) : v[j] = x /\ \A h \in 1..(j - 1) : v[h] # x) - 1
    ELSE Len(v)

\* origBB.erase(origBB.begin())
EraseFirst(v) == SubSeq(v, 2, Len(v))

\* v.insert(v.begin(), x)
InsertFirst(v, x) == <<x>> \o v

\* std::iota(begin, end, 0) on a vector of size n: 0, 1, ..., n-1.
Iota(n) == [j \in 1..n |-> j - 1]

\* The sequences std::shuffle can leave in bbSeq: the permutations of 0..n-1.
Permutations0(n) ==
    {p \in [1..n -> 0..(n - 1)] : \A i, j \in 1..n : i # j => p[i] # p[j]}

\* --------------------------------------------------------------- procedures

\* A StoreInst to state variable number var.  op "const": the constant k1 (lines
\* 121-123).  op "next": the next-state value built from the constants k1
\* (false constant), k2 (mask constant), the loaded value of variable var and
\* the sign-extended condition: cond "zero" for the constant 0, cond "br" for
\* the condition of the block's former branch (lines 169-192).
Store(var, op, cond, k1, k2) ==
    [var |-> var, op |-> op, cond |-> cond, k1 |-> k1, k2 |-> k2]

\* A block.  kind, succ, cases: its terminator ("ret", "br", "condbr",
\* "invoke", "switch"), the successors in operand order (for a switch: the
\* default destination) and the cases of a switch.  ld: the number of the
\* state variable the block loads first, 0 for none.  cmp: <<>> when the
\* block's condition is an input of the procedure, <<var, key>> when it is the
\* comparison of the loaded value of variable var with key.  sts: the stores to
\* state variables placed before the terminator, in order.
Block(kind, succ) ==
    [kind |-> kind, succ |-> succ, cases |-> <<>>, ld |-> 0, cmp |-> <<>>,
     sts |-> <<>>]

\* The blocks a terminator may name: never the entry block in well-formed IR.
Targets(n, malformed) == IF malformed THEN 0..(n - 1) ELSE 1..(n - 1)

\* Terminators of the input: ReturnInst, BranchInst (one or two successors),
\* InvokeInst (normal and unwind destination).
Terminators(n, malformed) ==
    {Block("ret", <<>>)}
    \cup {Block("br", <<t>>) : t \in Targets(n, malformed)}
    \cup {Block("condbr", <<t, e>>) : t \in Targets(n, malformed), e \in Targets(n, malformed)}
    \cup {Block("invoke", <<t, e>>) : t \in Targets(n, malformed), e \in Targets(n, malformed)}

\* The procedures of n blocks.
Procedures(n, malformed) ==
    {[layout |-> [i \in 1..n |-> i - 1], blk |-> b] :
        b \in [0..(n - 1) -> Terminators(n, malformed)]}

\* getTerminator()->getNumSuccessors()
NumSuccessors(b) == Len(b.succ)

\* isa<InvokeInst>(tmp->getTerminator())
IsInvoke(b) == b.kind = "invoke"

\* Accepted without the invoke test of line 73.
Accepted_NoInvokeTest(lay, blocks) == ~(Len(lay) <= 1)

\* The first loop and the size test: flatten goes on only when no block ends in
\* an invoke and the procedure has more than one block.
Accepted(lay, blocks) ==
    /\ \A i \in 1..Len(lay) : ~IsInvoke(blocks[lay[i]])
    /\ ~(Len(lay) <= 1)

\* SplitNeeded with the successor count compared to two.
SplitNeeded_MoreThanTwo(b) == NumSuccessors(b) > 2

\* The test that decides whether the entry block is split.
SplitNeeded(b) == b.kind = "condbr" \/ NumSuccessors(b) > 1

\* BasicBlock::Create(..., f, before): a new block x placed right before y.
InsertBefore(lay, x, y) ==
    LET j == FindIndex(lay, y) + 1
    IN  SubSeq(lay, 1, j - 1) \o <<x>> \o SubSeq(lay, j, Len(lay))

\* splitBasicBlock: the new block x is placed right after y.
InsertAfter(lay, x, y) ==
    LET j == FindIndex(lay, y) + 1
    IN  SubSeq(lay, 1, j) \o <<x>> \o SubSeq(lay, j + 1, Len(lay))

\* The layout without block x.
Without(lay, x) == SelectSeq(lay, LAMBDA z : z # x)

\* x->moveBefore(y)
MoveBefore(lay, x, y) == InsertBefore(Without(lay, x), x, y)

\* ------------------------------------------------------------------- state

VARIABLES
    layout,         \* the procedure: its blocks in order
    blk,            \* the procedure: block number -> block
    orig,           \* the procedure as first given to flatten (never changed)
    round,          \* the number of the run of flatten on the procedure: 1 or 2
    pcF,            \* the statement flatten is at
    origBB,         \* std::vector<BasicBlock *> origBB
    bbIndex,        \* std::vector<uint32_t> bbIndex
    bbSeq,          \* std::vector<size_t> bbSeq
    k,              \* position of the rewriting loop in bbSeq
    tmpBB,          \* the block split off the entry block, or NoBlock
    loopEntry,      \* the loop header, or NoBlock
    alloca,         \* whether this run has allocated its state variable
    result,         \* what flatten returned: "none" until it returns
    fixStackCalls,  \* number of calls of fixStack
    status,         \* the flattened procedure's run: "idle", "run" or "ret"
    pc,             \* the block the flattened procedure is at
    switchVar,      \* the cells of the state variables, one per AllocaInst
    load,           \* the values last loaded from them, one per LoadInst
    ostatus,        \* the given procedure's run: "idle", "run" or "ret"
    opc,            \* the block the given procedure is at
    lastBB,         \* the block that has just run and jumped to the loop header
    lastCond,       \* the condition value that block was run with
    arith           \* inputs and result of the next-state arithmetic on its own

vars ==
    <<layout, blk, orig, round, pcF, origBB, bbIndex, bbSeq, k, tmpBB, loopEntry, alloca,
      result, fixStackCalls, status, pc, switchVar, load, ostatus, opc, lastBB,
      lastCond, arith>>

runVars == <<status, pc, switchVar, load, ostatus, opc, lastBB, lastCond>>

NoBlock == 0 - 1

\* f->begin(): the entry block.
insert == 0

NoArith ==
    [phase |-> "off", lb |-> Zero32, lt |-> Zero32, lf |-> Zero32, kF |-> Zero32,
     kM |-> Zero32, c |-> FALSE, ld |-> Zero32, val |-> Zero32]

InitFlatten(p) ==
    /\ layout = p.layout
    /\ blk = p.blk
    /\ orig = p
    /\ round = 1
    /\ pcF = "validate"
    /\ origBB = <<>>
    /\ bbIndex = <<>>
    /\ bbSeq = <<>>
    /\ k = 0
    /\ tmpBB = NoBlock
    /\ loopEntry = NoBlock
    /\ alloca = FALSE
    /\ result = "none"
    /\ fixStackCalls = 0
    /\ status = "idle"
    /\ pc = insert
    /\ switchVar = <<>>
    /\ load = <<>>
    /\ ostatus = "idle"
    /\ opc = insert
    /\ lastBB = NoBlock
    /\ lastCond = FALSE

InitWith(p) == InitFlatten(p) /\ arith = NoArith

Init == \E n \in 1..MaxBlocks : \E p \in Procedures(n, FALSE) : InitWith(p)

\* ------------------------------------------------------------------ flatten

\* Lines 69-82: collect the blocks; return false at the first invoke, or when
\* there is at most one block.
Validate ==
    /\ pcF = "validate"
    /\ IF Accepted(layout, blk)
       THEN /\ origBB' = layout
            /\ pcF' = "split"
            /\ UNCHANGED result
       ELSE /\ pcF' = "returned"
            /\ result' = "false"
            /\ UNCHANGED origBB
    /\ UNCHANGED <<layout, blk, orig, round, bbIndex, bbSeq, k, tmpBB, loopEntry, alloca,
                   fixStackCalls, arith>>
    /\ UNCHANGED runVars

\* Lines 84-108: drop the entry block from origBB; when the entry block ends in
\* a branch point, split its tail off into a new block and put that block in
\* front of origBB.
SplitEntry ==
    /\ pcF = "split"
    /\ pcF' = "labels"
    /\ IF SplitNeeded(blk[insert])
       THEN LET first == Len(layout)
            IN  /\ tmpBB' = first
                /\ layout' = InsertAfter(layout, first, insert)
                /\ blk' = [b \in DOMAIN blk \cup {first} |->
                             IF b = insert THEN Block("br", <<first>>)
                             ELSE IF b = first THEN blk[insert]
                             ELSE blk[b]]
                /\ origBB' = InsertFirst(EraseFirst(origBB), first)
       ELSE /\ origBB' = EraseFirst(origBB)
            /\ UNCHANGED <<layout, blk, tmpBB>>
    /\ UNCHANGED <<orig, round, bbIndex, bbSeq, k, loopEntry, alloca, result,
                   fixStackCalls, arith>>
    /\ UNCHANGED runVars

\* Lines 110-113: one independent draw per dispatched block.
AssignLabels ==
    /\ pcF = "labels"
    /\ pcF' = "dispatch"
    /\ \E draw \in [1..Len(origBB) -> Labels] : bbIndex' = draw
    /\ UNCHANGED <<layout, blk, orig, round, origBB, bbSeq, k, tmpBB, loopEntry, alloca,
                   result, fixStackCalls, arith>>
    /\ UNCHANGED runVars

\* DefaultDest with the entry block as the default destination.
DefaultDest_Entry(header, entry) == entry

\* Line 135: SwitchInst::Create(load, loopEntry, 0, loopEntry): the default
\* destination of the switch is the loop header itself.
DefaultDest(header, entry) == header

\* Lines 116-123 and 132: the entry block loses its terminator and gets, after
\* what it holds already, the store of bbIndex[0] to the new state variable and
\* the branch to the loop header.
Prologue(B, var, idx, header) ==
    [B EXCEPT !.kind = "br", !.succ = <<header>>,
              !.sts = Append(B.sts, Store(var, "const", "none", At(idx, 0), Zero32))]

\* Lines 126-135: the loop header: the load of the state variable and the
\* switch on the loaded value, still without cases.
LoopEntry(var, header, entry) ==
    [Block("switch", <<DefaultDest(header, entry)>>) EXCEPT !.ld = var]

\* Lines 115-135: the entry block loses its terminator, allocates the state
\* variable, stores bbIndex[0] and jumps to the new loop header, which loads the
\* state variable and switches on it, with itself as the default destination.
BuildDispatch ==
    /\ pcF = "dispatch"
    /\ pcF' = "cases"
    /\ LET header == Len(layout)
       IN  /\ loopEntry' = header
           /\ alloca' = TRUE
           /\ switchVar' = Append(switchVar, <<>>)
           /\ load' = Append(load, <<>>)
           /\ layout' = MoveBefore(InsertBefore(layout, header, insert), insert, header)
           /\ blk' = [b \in DOMAIN blk \cup {header} |->
                        IF b = insert THEN Prologue(blk[insert], round, bbIndex, header)
                        ELSE IF b = header THEN LoopEntry(round, header, insert)
                        ELSE blk[b]]
    /\ UNCHANGED <<orig, round, origBB, bbIndex, bbSeq, k, tmpBB, result, fixStackCalls,
                   arith>>
    /\ UNCHANGED <<status, pc, ostatus, opc, lastBB, lastCond>>

\* Lines 146-147: every block of bbSeq, in that order, is moved before the loop
\* header.
RECURSIVE MoveAll(_, _, _, _, _)
MoveAll(lay, obb, seq, j, header) ==
    IF j > Len(seq) THEN lay
    ELSE MoveAll(MoveBefore(lay, At(obb, seq[j]), header), obb, seq, j + 1, header)

\* Lines 149-153: the case added for index b: key bbIndex[b], destination origBB[b].
CaseOf(obb, idx, b) == [key |-> At(idx, b), dest |-> At(obb, b)]

\* Cases with the key taken at the position in bbSeq instead of at the index.
Cases_KeyByPosition(obb, idx, seq) ==
    [j \in 1..Len(seq) |-> [key |-> At(idx, j - 1), dest |-> At(obb, seq[j])]]

\* Lines 142-154: the cases of the switch, added in the order of bbSeq.
Cases(obb, idx, seq) == [j \in 1..Len(seq) |-> CaseOf(obb, idx, seq[j])]

\* Lines 137-154: shuffle 0..size-1 into bbSeq; in that order move each block
\* before the loop header and add its case to the switch.
InstallCases ==
    /\ pcF = "cases"
    /\ pcF' = "rewrite"
    /\ k' = 0
    /\ \E perm \in Permutations0(Len(origBB)) :
         /\ bbSeq' = perm
         /\ layout' = MoveAll(layout, origBB, perm, 1, loopEntry)
         /\ blk' = [blk EXCEPT ![loopEntry].cases = Cases(origBB, bbIndex, perm)]
    /\ UNCHANGED <<orig, round, origBB, bbIndex, tmpBB, loopEntry, alloca, result,
                   fixStackCalls, arith>>
    /\ UNCHANGED runVars

\* bbIndex[i]; a read past the end of the vector returns some value g.
ReadIndex(idx, i, g) == IF i < Len(idx) THEN At(idx, i) ELSE g

\* SuccIndexFalse reading successor 0 in both cases.
SuccIndexFalse_FirstSuccessor(obb, B) == FindIndex(obb, B.succ[1])

\* Lines 170 and 177: the index in origBB of the successor taken when the
\* condition is false (the only successor of an unconditional branch).
SuccIndexFalse(obb, B) ==
    IF NumSuccessors(B) = 1 THEN FindIndex(obb, B.succ[1])
    ELSE FindIndex(obb, B.succ[2])

\* SuccIndexTrue with the position in bbSeq counted from one.
SuccIndexTrue_FromOne(obb, seq, b, B) ==
    IF NumSuccessors(B) = 1 THEN FindIndex(seq, b) + 1
    ELSE FindIndex(obb, B.succ[1])

\* Lines 171 and 178: the index used for the condition-true label: for an
\* unconditional branch the position of b in bbSeq, for a conditional branch the
\* index in origBB of the first successor.
SuccIndexTrue(obb, seq, b, B) ==
    IF NumSuccessors(B) = 1 THEN FindIndex(seq, b)
    ELSE FindIndex(obb, B.succ[1])

\* CondOf taking the condition from the terminator in both cases.
CondOf_AlwaysBranch(B) == "br"

\* Lines 169 and 176: the i1 that is sign-extended: the constant 0 for an
\* unconditional branch, the branch condition otherwise.
CondOf(B) == IF NumSuccessors(B) = 1 THEN "zero" ELSE "br"

\* Line 182: the constant bbIndex[b] ^ bbIndex[succIndexFalse].
ConstFalse(lb, lf) == Xor32(lb, lf)

\* Line 185: the constant bbIndex[succIndexTrue] ^ bbIndex[succIndexFalse].
ConstMask(lt, lf) == Xor32(lt, lf)

\* Rewritten without the erasure of the terminator (line 189) and without the
\* new branch (line 194).
Rewritten_KeepsTerminator(B, b, var, obb, idx, seq, header, g) ==
    LET f == SuccIndexFalse(obb, B)
        t == SuccIndexTrue(obb, seq, b, B)
    IN  [B EXCEPT !.sts = Append(B.sts,
                     Store(var, "next", CondOf(B),
                           ConstFalse(At(idx, b), ReadIndex(idx, f, g)),
                           ConstMask(ReadIndex(idx, t, g), ReadIndex(idx, f, g))))]

\* Rewritten with a block that has one successor left as it is: its branch
\* stays a direct jump to the successor.
Rewritten_DirectJump(B, b, var, obb, idx, seq, header, g) ==
    LET f == SuccIndexFalse(obb, B)
        t == SuccIndexTrue(obb, seq, b, B)
    IN  IF NumSuccessors(B) = 1 THEN B
        ELSE [B EXCEPT !.kind = "br", !.succ = <<header>>,
                       !.sts = Append(B.sts,
                          Store(var, "next", CondOf(B),
                                ConstFalse(At(idx, b), ReadIndex(idx, f, g)),
                                ConstMask(ReadIndex(idx, t, g), ReadIndex(idx, f, g))))]

\* Lines 181-195: the rewritten block: the next-state computation, the store of
\* its value to the state variable and the jump to the loop header.
Rewritten(B, b, var, obb, idx, seq, header, g) ==
    LET f == SuccIndexFalse(obb, B)
        t == SuccIndexTrue(obb, seq, b, B)
    IN  [B EXCEPT !.kind = "br", !.succ = <<header>>,
                  !.sts = Append(B.sts,
                     Store(var, "next", CondOf(B),
                           ConstFalse(At(idx, b), ReadIndex(idx, f, g)),
                           ConstMask(ReadIndex(idx, t, g), ReadIndex(idx, f, g))))]

\* Whether rewriting block B reads bbIndex past its end.
ReadsPastEnd(B, b, obb, seq) ==
    \/ ~(SuccIndexFalse(obb, B) < Len(obb))
    \/ ~(SuccIndexTrue(obb, seq, b, B) < Len(obb))

\* RewriteBlock without the test of line 163: a block without successor also
\* gets a store to the state variable and a branch to the loop header in place
\* of its terminator.
RewriteBlock_AlsoReturn ==
    /\ pcF = "rewrite"
    /\ k < Len(bbSeq)
    /\ k' = k + 1
    /\ LET b == At(bbSeq, k)
           i == At(origBB, b)
       IN  IF NumSuccessors(blk[i]) = 0
           THEN blk' = [blk EXCEPT ![i] =
                          [blk[i] EXCEPT !.kind = "br", !.succ = <<loopEntry>>,
                                         !.sts = Append(blk[i].sts,
                                                    Store(round, "next", "zero",
                                                          Zero32, Zero32))]]
           ELSE \E g \in (IF ReadsPastEnd(blk[i], b, origBB, bbSeq)
                          THEN Garbage ELSE {Zero32}) :
                  blk' = [blk EXCEPT ![i] =
                            Rewritten(blk[i], b, round, origBB, bbIndex, bbSeq,
                                      loopEntry, g)]
    /\ UNCHANGED <<layout, orig, round, pcF, origBB, bbIndex, bbSeq, tmpBB, loopEntry, alloca,
                   result, fixStackCalls, arith>>
    /\ UNCHANGED runVars

\* Lines 157-195, one iteration: a block without successor is skipped; any
\* other block of bbSeq gets its terminator replaced.
RewriteBlock ==
    /\ pcF = "rewrite"
    /\ k < Len(bbSeq)
    /\ k' = k + 1
    /\ LET b == At(bbSeq, k)
           i == At(origBB, b)
       IN  IF NumSuccessors(blk[i]) = 0
           THEN UNCHANGED blk
           ELSE \E g \in (IF ReadsPastEnd(blk[i], b, origBB, bbSeq)
                          THEN Garbage ELSE {Zero32}) :
                  blk' = [blk EXCEPT ![i] =
                            Rewritten(blk[i], b, round, origBB, bbIndex, bbSeq,
                                      loopEntry, g)]
    /\ UNCHANGED <<layout, orig, round, pcF, origBB, bbIndex, bbSeq, tmpBB, loopEntry, alloca,
                   result, fixStackCalls, arith>>
    /\ UNCHANGED runVars

\* FixStack placed inside the rewriting loop: called after any iteration.
FixStack_InsideLoop ==
    /\ pcF = "rewrite"
    /\ k > 0
    /\ pcF' = "return"
    /\ fixStackCalls' = fixStackCalls + 1
    /\ UNCHANGED <<layout, blk, orig, round, origBB, bbIndex, bbSeq, k, tmpBB, loopEntry,
                   alloca, result, arith>>
    /\ UNCHANGED runVars

\* Line 197: fixStack(f), once the rewriting loop has ended.
FixStack ==
    /\ pcF = "rewrite"
    /\ ~(k < Len(bbSeq))
    /\ pcF' = "return"
    /\ fixStackCalls' = fixStackCalls + 1
    /\ UNCHANGED <<layout, blk, orig, round, origBB, bbIndex, bbSeq, k, tmpBB, loopEntry,
                   alloca, result, arith>>
    /\ UNCHANGED runVars

\* Line 199: return true.
Return ==
    /\ pcF = "return"
    /\ pcF' = "returned"
    /\ result' = "true"
    /\ UNCHANGED <<layout, blk, orig, round, origBB, bbIndex, bbSeq, k, tmpBB, loopEntry,
                   alloca, fixStackCalls, arith>>
    /\ UNCHANGED runVars

\* ---------------------------------------------------------------- execution

\* FinalVal without the xor with the loaded state value.
FinalVal_NoLoad(cond, kMask, kFalse, ld) == Xor32(And32(cond, kMask), kFalse)

\* Lines 181-186 at run time: finalVal = (cond & kMask) ^ (kFalse ^ load).
FinalVal(cond, kMask, kFalse, ld) == Xor32(And32(cond, kMask), Xor32(kFalse, ld))

\* The loaded values once block B has done its load, if it has one.
AfterLoad(B, regs, cells) ==
    IF B.ld = 0 THEN regs ELSE [regs EXCEPT ![B.ld] = cells[B.ld]]

\* The loaded value of state variable var; when the load has not run, the
\* value is undefined: some i32 g.
Reg(regs, var, g) == IF regs[var] = <<>> THEN g ELSE regs[var]

\* Whether block B uses a loaded value whose load has not run.
UsesUnset(B, regs) ==
    \/ B.cmp # <<>> /\ regs[B.cmp[1]] = <<>>
    \/ \E j \in 1..Len(B.sts) : B.sts[j].op = "next" /\ regs[B.sts[j].var] = <<>>

\* The condition of block B: the comparison it makes, or the input value c.
CondValue(B, regs, c, g) ==
    IF B.cmp = <<>> THEN c ELSE Reg(regs, B.cmp[1], g) = B.cmp[2]

\* The value a store writes (lines 121-123 and 181-192).
StoredValue(st, cv, ld) ==
    IF st.op = "const" THEN st.k1
    ELSE FinalVal(SExt(IF st.cond = "zero" THEN FALSE ELSE cv), st.k2, st.k1, ld)

\* The cells of the state variables after stores j, j+1, ... of sts.
RECURSIVE AfterStores(_, _, _, _, _, _)
AfterStores(sts, j, cells, regs, cv, g) ==
    IF j > Len(sts) THEN cells
    ELSE AfterStores(sts, j + 1,
                     [cells EXCEPT ![sts[j].var] =
                         StoredValue(sts[j], cv, Reg(regs, sts[j].var, g))],
                     regs, cv, g)

\* Where a branch goes: the first successor when there is one successor or the
\* condition is true, the second otherwise.
BranchTarget(B, c) == IF NumSuccessors(B) = 1 \/ c THEN B.succ[1] ELSE B.succ[2]

\* The destinations a switch may take for value v: those of the cases whose key
\* is v (one of them when several cases share the key), and the default
\* destination when no case has the key.
SwitchTargets(B, v) ==
    LET hit == {j \in 1..Len(B.cases) : B.cases[j].key = v}
    IN  IF hit = {} THEN {B.succ[1]} ELSE {B.cases[j].dest : j \in hit}

\* Whether block B takes a condition value from the inputs of the procedure.
NeedsInput(B) ==
    /\ B.cmp = <<>>
    /\ B.kind = "condbr" \/ \E j \in 1..Len(B.sts) : B.sts[j].cond = "br"

\* Block b carries code of the procedure as first given: it is one of its
\* blocks or the block split off its entry block.
IsGiven(b) == b < Len(orig.layout) \/ b = tmpBB

Runnable == pcF = "returned" /\ result = "true"

\* The given procedure executes the terminator of the block it is at.
OrigStep(c) ==
    IF ostatus # "run" THEN UNCHANGED <<ostatus, opc>>
    ELSE IF orig.blk[opc].kind = "ret" THEN ostatus' = "ret" /\ UNCHANGED opc
    ELSE ostatus' = "run" /\ opc' = BranchTarget(orig.blk[opc], c)

\* Both procedures start.  The flattened one runs the entry prologue: the stores
\* of the initial states and the jump to the loop header.  The given one runs
\* its entry block up to the terminator, and the terminator too unless it needs
\* a condition value: that one is taken with the first value supplied.
RunPrologue ==
    /\ Runnable
    /\ status = "idle"
    /\ status' = "run"
    /\ switchVar' = AfterStores(blk[insert].sts, 1, switchVar, load, FALSE, Zero32)
    /\ pc' = BranchTarget(blk[insert], FALSE)
    /\ IF orig.blk[insert].kind = "condbr"
       THEN ostatus' = "run" /\ UNCHANGED opc
       ELSE IF orig.blk[insert].kind = "ret"
       THEN ostatus' = "ret" /\ UNCHANGED opc
       ELSE ostatus' = "run" /\ opc' = BranchTarget(orig.blk[insert], FALSE)
    /\ UNCHANGED <<layout, blk, orig, round, pcF, result, fixStackCalls, load, lastBB,
                   lastCond, arith>>
    /\ UNCHANGED <<origBB, bbIndex, bbSeq, k, tmpBB, loopEntry, alloca>>

\* The loop header: load the state variable and switch on the loaded value.
Dispatch ==
    /\ Runnable
    /\ status = "run"
    /\ blk[pc].kind = "switch"
    /\ LET regs == AfterLoad(blk[pc], load, switchVar)
       IN  /\ load' = regs
           /\ pc' \in SwitchTargets(blk[pc], regs[blk[pc].ld])
    /\ lastBB' = NoBlock
    /\ lastCond' = FALSE
    /\ UNCHANGED <<layout, blk, orig, round, pcF, result, fixStackCalls, status,
                   switchVar, ostatus, opc, arith>>
    /\ UNCHANGED <<origBB, bbIndex, bbSeq, k, tmpBB, loopEntry, alloca>>

\* A block other than the loop header runs in the flattened procedure: its
\* load, its stores, its terminator.  When the block carries code of the given
\* procedure, the given procedure runs the block it is at, with the same
\* condition value c.
RunBlock ==
    /\ Runnable
    /\ status = "run"
    /\ blk[pc].kind # "switch"
    /\ LET B == blk[pc]
           regs == AfterLoad(B, load, switchVar)
       IN  \E c \in (IF \/ NeedsInput(B)
                        \/ IsGiven(pc) /\ ostatus = "run" /\ orig.blk[opc].kind = "condbr"
                     THEN BOOLEAN ELSE {FALSE}) :
           \E g \in (IF UsesUnset(B, regs) THEN Garbage ELSE {Zero32}) :
             LET cv == CondValue(B, regs, c, g)
             IN  /\ load' = regs
                 /\ switchVar' = AfterStores(B.sts, 1, switchVar, regs, cv, g)
                 /\ lastBB' = pc
                 /\ lastCond' = cv
                 /\ IF B.kind = "ret"
                    THEN status' = "ret" /\ UNCHANGED pc
                    ELSE status' = "run" /\ pc' = BranchTarget(B, cv)
                 /\ IF IsGiven(pc) THEN OrigStep(c) ELSE UNCHANGED <<ostatus, opc>>
    /\ UNCHANGED <<layout, blk, orig, round, pcF, result, fixStackCalls, arith>>
    /\ UNCHANGED <<origBB, bbIndex, bbSeq, k, tmpBB, loopEntry, alloca>>

Next ==
    \/ Validate
    \/ SplitEntry
    \/ AssignLabels
    \/ BuildDispatch
    \/ InstallCases
    \/ RewriteBlock
    \/ FixStack
    \/ Return
    \/ RunPrologue
    \/ Dispatch
    \/ RunBlock

Spec == Init /\ [][Next]_vars

\* flatten alone, up to its return.
FlattenNext ==
    \/ Validate
    \/ SplitEntry
    \/ AssignLabels
    \/ BuildDispatch
    \/ InstallCases
    \/ RewriteBlock
    \/ FixStack
    \/ Return

SpecFlatten == Init /\ [][FlattenNext]_vars

\* ------------------------------------------------------- flatten, a second time

\* The id of test j of the chain that replaces the switch of block h: h itself
\* for the first test, new blocks for the others.
ChainNode(lay, h, j) == IF j = 1 THEN h ELSE Len(lay) + j - 2

\* Test j of the chain: compare the loaded value with the key of case j and go
\* to the destination of the case when they are equal, to the next test (after
\* the last test: to the default destination) when not.  The first test, in
\* the block that held the switch, keeps the load.
ChainTest(lay, H, h, j) ==
    [Block("condbr",
           <<H.cases[j].dest,
             IF j < Len(H.cases) THEN ChainNode(lay, h, j + 1) ELSE H.succ[1]>>)
       EXCEPT !.ld = IF j = 1 THEN H.ld ELSE 0,
              !.cmp = <<H.ld, H.cases[j].key>>]

\* The block order with the new tests placed after block h.
LoweredLayout(lay, H, h) ==
    LET pos == FindIndex(lay, h) + 1
    IN  SubSeq(lay, 1, pos)
        \o [j \in 1..(Len(H.cases) - 1) |-> ChainNode(lay, h, j + 1)]
        \o SubSeq(lay, pos + 1, Len(lay))

\* The blocks with the switch of block h replaced by the chain of tests.
LoweredBlocks(lay, blocks, h) ==
    LET H == blocks[h]
        nodes == {ChainNode(lay, h, j) : j \in 1..Len(H.cases)}
    IN  [b \in DOMAIN blocks \cup nodes |->
           IF b \in nodes
           THEN ChainTest(lay, H, h, CHOOSE j \in 1..Len(H.cases) : ChainNode(lay, h, j) = b)
           ELSE blocks[b]]

\* The pass is run again on the procedure it produced.  The pass requires
\* LowerSwitch (line 41), which runs first and replaces the switch of the loop
\* header by branches with one or two successors; then flatten starts on the
\* result, with fresh locals.
LowerSwitch ==
    /\ Runnable
    /\ status = "idle"
    /\ round = 1
    /\ round' = 2
    /\ layout' = LoweredLayout(layout, blk[loopEntry], loopEntry)
    /\ blk' = LoweredBlocks(layout, blk, loopEntry)
    /\ pcF' = "validate"
    /\ result' = "none"
    /\ origBB' = <<>>
    /\ bbIndex' = <<>>
    /\ bbSeq' = <<>>
    /\ k' = 0
    /\ loopEntry' = NoBlock
    /\ alloca' = FALSE
    /\ UNCHANGED <<orig, tmpBB, fixStackCalls, arith>>
    /\ UNCHANGED runVars

\* The second run is tried on the procedures of up to TwiceBlocks blocks whose
\* entry block is not a branch point (the first run does not split it).
TwiceInit ==
    \E n \in 1..TwiceBlocks : \E p \in Procedures(n, FALSE) :
        NumSuccessors(p.blk[0]) <= 1 /\ InitWith(p)

TwiceNext == Next \/ LowerSwitch

SpecTwice == TwiceInit /\ [][TwiceNext]_vars

\* flatten on procedures in which a branch may name the entry block.  flatten
\* does not look for such branches; the entry block is not in origBB, so the
\* index found for it is origBB.size() and the label read at that index is
\* whatever lies past the end of bbIndex.
MalformedInit ==
    \E n \in 1..MalformedBlocks : \E p \in Procedures(n, TRUE) : InitWith(p)

MalformedSpec == MalformedInit /\ [][Next]_vars

\* ------------------------------------------- the next-state arithmetic alone

HalfPool == <<0, HalfMod - 1, 43690, 1, 32768, 21845, 4660>>

Halves == {HalfPool[i] : i \in 1..(IF NumHalves < Len(HalfPool) THEN NumHalves
                                    ELSE Len(HalfPool))}

\* The i32 values the arithmetic is tried on.
Words == {<<h, l>> : h \in Halves, l \in Halves}

\* A procedure flatten rejects: the arithmetic runs with flatten idle.
IdleProcedure == [layout |-> <<0>>, blk |-> [b \in {0} |-> Block("ret", <<>>)]]

\* A block with label lb whose conditional branch goes to a block with label lt
\* when the condition is true and to a block with label lf when it is false.
ArithInit ==
    /\ InitFlatten(IdleProcedure)
    /\ \E lb \in Words, lt \in Words, lf \in Words :
         arith = [NoArith EXCEPT !.phase = "in", !.lb = lb, !.lt = lt, !.lf = lf]

\* Lines 181-185 in flatten: the two constants of the rewritten block.
ArithBuild ==
    /\ arith.phase = "in"
    /\ arith' = [arith EXCEPT !.phase = "built",
                              !.kF = ConstFalse(arith.lb, arith.lf),
                              !.kM = ConstMask(arith.lt, arith.lf)]
    /\ UNCHANGED <<layout, blk, orig, round, pcF, result, fixStackCalls>>
    /\ UNCHANGED <<origBB, bbIndex, bbSeq, k, tmpBB, loopEntry, alloca>>
    /\ UNCHANGED runVars

\* The rewritten block runs: it was dispatched to, so the loaded state value is
\* its label; it stores the value computed from the condition.
ArithRun ==
    /\ arith.phase = "built"
    /\ \E c \in BOOLEAN :
         arith' = [arith EXCEPT
                     !.phase = "done",
                     !.c = c,
                     !.ld = arith.lb,
                     !.val = StoredValue(Store(1, "next", "br", arith.kF, arith.kM),
                                         c, arith.lb)]
    /\ UNCHANGED <<layout, blk, orig, round, pcF, result, fixStackCalls>>
    /\ UNCHANGED <<origBB, bbIndex, bbSeq, k, tmpBB, loopEntry, alloca>>
    /\ UNCHANGED runVars

ArithNext == ArithBuild \/ ArithRun

SpecArith == ArithInit /\ [][ArithNext]_vars

\* ------------------------------------------------------------------ claims

\* The block of the given procedure whose terminator block b carries: the entry
\* block for the block split off it, b itself otherwise.
OrigOf(b) == IF b = tmpBB THEN insert ELSE b

\* The terminator block b had in the given procedure.
OrigTerm(b) == orig.blk[OrigOf(b)]

\* The state variable of this run of flatten, and its loaded value.
StateVar == switchVar[round]

\* The last store of block b.
LastStore(b) == blk[b].sts[Len(blk[b].sts)]

\* Block b ends in a store of a next-state value to this run's state variable.
HasNext(b) ==
    /\ blk[b].sts # <<>>
    /\ LastStore(b).op = "next"
    /\ LastStore(b).var = round

\* The dispatched blocks.
Dispatched == {origBB[j] : j \in 1..Len(origBB)}

\* The label of dispatched block b: bbIndex at the index of b in origBB.
LabelOf(b) == At(bbIndex, FindIndex(origBB, b))

\* The procedure given to flatten passes validation, stated on the procedure
\* as given: more than one block, no invoke.
GivenValid ==
    /\ Len(orig.layout) >= 2
    /\ \A b \in DOMAIN orig.blk : orig.blk[b].kind # "invoke"

\* flatten is past the rewriting loop of a procedure it accepted.
Rewriting == pcF \in {"rewrite", "return", "returned"} /\ result # "false"

RewritingDone == Rewriting /\ k = Len(bbSeq)

\* C1 (as claimed): behaviour preservation.  For every accepted procedure and
\* every sequence of condition values, each dispatched block the flattened
\* procedure enters is the block the given procedure is at, and the flattened
\* procedure returns only in the block where the given procedure returns.
C1_BehaviourPreserved ==
    (Runnable /\ status # "idle") =>
        /\ (status = "run" /\ blk[pc].kind # "switch")
              => (ostatus = "run" /\ opc = OrigOf(pc))
        /\ status = "ret" => (ostatus = "ret" /\ opc = OrigOf(pc))

\* C2: rejection correctness.  A procedure with at most one block, or with a
\* block ending in an invoke, is never touched: flatten returns false, the
\* blocks, their order and their terminators stay as given, no block is split
\* off, no loop header and no state variable are created and fixStack is not
\* called.
C2_RejectionCorrect ==
    ~GivenValid =>
        /\ layout = orig.layout
        /\ blk = orig.blk
        /\ tmpBB = NoBlock
        /\ loopEntry = NoBlock
        /\ ~alloca
        /\ fixStackCalls = 0
        /\ result # "true"
        /\ pcF \in {"validate", "returned"}
        /\ pcF = "returned" => result = "false"

\* flatten has returned false on a procedure of several blocks, one of them
\* ending in an invoke.
C2_Witness ==
    /\ pcF = "returned"
    /\ result = "false"
    /\ Len(orig.layout) >= 2
    /\ \E b \in DOMAIN orig.blk : orig.blk[b].kind = "invoke"

\* C3 (as claimed): dispatch completeness.  Once the cases are installed, the
\* labels of the dispatched blocks are pairwise distinct and the label of each
\* dispatched block is the key of exactly one case, whose destination is that
\* block.
C3_DispatchComplete ==
    Rewriting =>
        /\ \A i, j \in 1..Len(bbIndex) : i # j => bbIndex[i] # bbIndex[j]
        /\ \A b \in Dispatched :
              /\ Cardinality({j \in 1..Len(blk[loopEntry].cases) :
                                blk[loopEntry].cases[j].key = LabelOf(b)}) = 1
              /\ \A j \in 1..Len(blk[loopEntry].cases) :
                    blk[loopEntry].cases[j].key = LabelOf(b)
                       => blk[loopEntry].cases[j].dest = b

\* C4: structural invariant.  After the rewriting loop, a dispatched block
\* whose terminator had one or two successors has the loop header as its only
\* successor, reached by an unconditional branch; a dispatched block whose
\* terminator had no successor has none; no dispatched block has a dispatched
\* block as a successor.
C4_Structural ==
    RewritingDone =>
        \A b \in Dispatched :
            /\ NumSuccessors(OrigTerm(b)) \in {1, 2}
                  => (blk[b].kind = "br" /\ blk[b].succ = <<loopEntry>>)
            /\ NumSuccessors(OrigTerm(b)) = 0 => blk[b].succ = <<>>
            /\ \A j \in 1..Len(blk[b].succ) : blk[b].succ[j] \notin Dispatched

\* flatten has returned on a procedure with a two-way block, a one-way block
\* and a returning block among the dispatched blocks.
C4_Witness ==
    /\ pcF = "returned"
    /\ result = "true"
    /\ \E b \in Dispatched : NumSuccessors(OrigTerm(b)) = 2
    /\ \E b \in Dispatched : NumSuccessors(OrigTerm(b)) = 1
    /\ \E b \in Dispatched : NumSuccessors(OrigTerm(b)) = 0

\* C5: conditional-branch arithmetic.  For a block with label Lb entered with
\* the loaded state value Lb, and any labels T and F, the value
\* (sext(cond) AND (T XOR F)) XOR ((Lb XOR F) XOR load) is T when cond is true
\* and F when cond is false.
C5_CondArithmetic ==
    arith.phase = "done" => arith.val = (IF arith.c THEN arith.lt ELSE arith.lf)

\* The arithmetic has run with a true condition on three labels that differ
\* in both halves.
C5_Witness ==
    /\ arith.phase = "done"
    /\ arith.c
    /\ arith.ld = arith.lb
    /\ arith.lt[1] # arith.lf[1] /\ arith.lt[2] # arith.lf[2]
    /\ arith.lb[1] # arith.lf[1] /\ arith.lb[2] # arith.lt[2]

\* C6: state-variable invariant.  Whenever the flattened procedure is at the
\* loop header, every block the switch can transfer to is a dispatched block
\* whose label is the value of the state variable; and when a block has just
\* jumped back to the header, the state variable is the label of the successor
\* that block's terminator in the given procedure takes under the condition
\* value the block ran with.
C6_StateVariable ==
    (Runnable /\ status = "run" /\ pc = loopEntry) =>
        /\ \A b \in SwitchTargets(blk[loopEntry], StateVar) :
              b \in Dispatched /\ LabelOf(b) = StateVar
        /\ lastBB # NoBlock
              => StateVar = LabelOf(BranchTarget(OrigTerm(lastBB), lastCond))

\* A two-way block has run with a true condition and jumped back to the loop
\* header, and its two successors have different labels.
C6_Witness ==
    /\ Runnable
    /\ status = "run"
    /\ pc = loopEntry
    /\ lastBB # NoBlock
    /\ lastCond
    /\ NumSuccessors(OrigTerm(lastBB)) = 2
    /\ LabelOf(OrigTerm(lastBB).succ[1]) # LabelOf(OrigTerm(lastBB).succ[2])

\* C7 (as claimed): flatten run a second time, on the procedure the first run
\* produced with its switch lowered to branches, yields a procedure that
\* still enters the blocks of the procedure first given in the order in which
\* that procedure executes them, and returns where it returns.
C7_TwicePreserved ==
    (round = 2 /\ Runnable /\ status # "idle") =>
        /\ (status = "run" /\ IsGiven(pc) /\ pc # insert)
              => (ostatus = "run" /\ opc = OrigOf(pc))
        /\ status = "ret" => (ostatus = "ret" /\ opc = OrigOf(pc))

\* C8: flatten returns true exactly on the procedures that pass validation;
\* fixStack is called at most once, it has been called once whenever flatten
\* has returned true and never when flatten returns false, and at the moment of
\* the call every dispatched block with a successor has been rewritten and
\* flatten has not returned yet.
C8_ReturnAndRepair ==
    /\ fixStackCalls <= 1
    /\ pcF # "returned" => result = "none"
    /\ pcF = "returned" => result = (IF GivenValid THEN "true" ELSE "false")
    /\ result = "true" => fixStackCalls = 1
    /\ ~GivenValid => fixStackCalls = 0
    /\ fixStackCalls = 1 =>
          /\ RewritingDone
          /\ \A b \in Dispatched :
                NumSuccessors(OrigTerm(b)) > 0
                   => (HasNext(b) /\ blk[b].succ = <<loopEntry>>)

\* fixStack has been called, after the rewriting of a block with a successor,
\* and flatten has not returned yet.
C8_Witness ==
    /\ pcF = "return"
    /\ fixStackCalls = 1
    /\ result = "none"
    /\ \E b \in Dispatched : HasNext(b)

\* No case of the switch has key v.
NoCase(v) == \A j \in 1..Len(blk[loopEntry].cases) : blk[loopEntry].cases[j].key # v

\* The flattened procedure is at the loop header and the state variable holds a
\* value that is the key of no case.
OutOfRange == Runnable /\ status = "run" /\ pc = loopEntry /\ NoCase(StateVar)

\* C9: out-of-range fallback.  From a state where control is at the loop header
\* and the state variable is the key of no case, every step leaves control at
\* the loop header and the state variable as it is; so the condition holds
\* again and no dispatched block is ever entered.
C9_Fallback ==
    [][OutOfRange => (pc' = loopEntry /\ switchVar' = switchVar /\ status' = "run"
                      /\ blk' = blk /\ loopEntry' = loopEntry)]_vars

\* The loop header has loaded a state value that is the key of no case, has
\* taken the default edge and is at the loop header again.
C9_Witness ==
    /\ OutOfRange
    /\ load[round] = StateVar
    /\ lastBB = NoBlock

\* C10: entry splitting.  The entry block is split exactly when its terminator
\* has more than one successor; the block split off is the first dispatched
\* block and the value the prologue stores is its label; and, split or not, the
\* entry prologue is the destination of no case and ends in an unconditional
\* branch to the loop header.
C10_EntrySplit ==
    (pcF \notin {"validate", "split"} /\ result # "false") =>
        /\ tmpBB # NoBlock <=> NumSuccessors(orig.blk[insert]) > 1
        /\ tmpBB # NoBlock =>
              /\ At(origBB, 0) = tmpBB
              /\ blk[tmpBB].kind # "switch"
              /\ alloca => (/\ Len(blk[insert].sts) = 1
                            /\ LastStore(insert).op = "const"
                            /\ LastStore(insert).var = round
                            /\ LastStore(insert).k1 = LabelOf(tmpBB))
        /\ alloca =>
              /\ blk[insert].kind = "br"
              /\ blk[insert].succ = <<loopEntry>>
              /\ \A j \in 1..Len(blk[loopEntry].cases) :
                    blk[loopEntry].cases[j].dest # insert
        /\ insert \notin Dispatched

\* flatten has returned on a procedure whose entry block was split.
C10_Witness ==
    /\ pcF = "returned"
    /\ result = "true"
    /\ tmpBB # NoBlock
    /\ Len(blk[loopEntry].cases) = Len(origBB)

\* The entry block of the given procedure was not split and ended in an
\* unconditional branch.
EntryJumps == tmpBB = NoBlock /\ orig.blk[insert].kind = "br"

\* The block the entry terminator of the given procedure transferred to.
EntrySuccessor == orig.blk[insert].succ[1]

\* C11 (as claimed): initial dispatch target.  For an accepted procedure whose
\* entry block is not split, the value the entry prologue stores to the state
\* variable is the label of the block the entry terminator of the given
\* procedure transferred to, and once the cases are installed the switch can go
\* to that block on the stored value.
C11_InitialTarget ==
    (alloca /\ result # "false" /\ EntryJumps) =>
        /\ LastStore(insert).op = "const"
        /\ LastStore(insert).k1 = LabelOf(EntrySuccessor)
        /\ Rewriting => EntrySuccessor \in SwitchTargets(blk[loopEntry], LastStore(insert).k1)

\* The only successor of the terminator block b had in the given procedure.
OnlySuccessor(b) == OrigTerm(b).succ[1]

\* C12: unconditional-branch rewrite.  For every dispatched block whose
\* terminator had exactly one successor, the rewritten block stores, whatever
\* the condition value it runs with, the label of that successor; the mask
\* constant, built from the label at the block's position in the shuffled
\* order, has no influence: the stored value is the same for the label at any
\* index taken as the "true" label.  At run time, when such a block has jumped
\* back to the loop header, the state variable holds the successor's label.
C12_UnconditionalRewrite ==
    /\ pcF = "return" =>
          \A b \in Dispatched :
             NumSuccessors(OrigTerm(b)) = 1 =>
                /\ HasNext(b)
                /\ LastStore(b).k1 = ConstFalse(LabelOf(b), LabelOf(OnlySuccessor(b)))
                /\ \A cv \in BOOLEAN :
                      StoredValue(LastStore(b), cv, LabelOf(b)) = LabelOf(OnlySuccessor(b))
                /\ \A t \in 0..(Len(bbIndex) - 1) :
                      FinalVal(SExt(FALSE),
                               ConstMask(At(bbIndex, t), LabelOf(OnlySuccessor(b))),
                               LastStore(b).k1, LabelOf(b))
                         = LabelOf(OnlySuccessor(b))
    /\ (Runnable /\ status = "run" /\ pc = loopEntry /\ lastBB # NoBlock
           /\ NumSuccessors(OrigTerm(lastBB)) = 1)
          => StateVar = LabelOf(OnlySuccessor(lastBB))

\* A block whose terminator had one successor has run and jumped back to the
\* loop header, and the label at its position in the shuffled order differs
\* from the label of its successor (the mask constant is not zero).
C12_Witness ==
    /\ Runnable
    /\ status = "run"
    /\ pc = loopEntry
    /\ lastBB # NoBlock
    /\ NumSuccessors(OrigTerm(lastBB)) = 1
    /\ LastStore(lastBB).k2 # Zero32
    /\ StateVar = LabelOf(OnlySuccessor(lastBB))

\* The set of (case key, target block) pairs of a sequence of cases.
CasePairs(cs) == {cs[j] : j \in 1..Len(cs)}

\* The store flatten appends to the dispatched block at index b of origBB when
\* the shuffled order is seq.
NextStore(seq, b) ==
    LET R == Rewritten(OrigTerm(At(origBB, b)), b, round, origBB, bbIndex, seq,
                       loopEntry, Zero32)
    IN  R.sts[Len(R.sts)]

\* The indices in origBB of the dispatched blocks flatten rewrites.
RewrittenIndices ==
    {b \in 0..(Len(origBB) - 1) : NumSuccessors(OrigTerm(At(origBB, b))) > 0}

\* Two stores write the same value to the state variable for both condition
\* values when the block is entered with the loaded value ld.
SameNextState(s1, s2, ld) ==
    \/ s1 = s2
    \/ \A cv \in BOOLEAN : StoredValue(s1, cv, ld) = StoredValue(s2, cv, ld)

\* C13: shuffle independence.  With the procedure and the labels fixed, what
\* flatten built with the permutation it drew is what it builds with any other
\* permutation p, up to order: the same set of (case key, target block) pairs in
\* the switch, and for every rewritten block and condition value the same
\* next-state value.  (Every permutation agrees with the one drawn, so any two
\* agree.)
C13_ShuffleIndependent ==
    pcF = "return" =>
        /\ blk[loopEntry].cases = Cases(origBB, bbIndex, bbSeq)
        /\ \A b \in RewrittenIndices : LastStore(At(origBB, b)) = NextStore(bbSeq, b)
        /\ \A p \in Permutations0(Len(origBB)) :
              /\ CasePairs(Cases(origBB, bbIndex, p)) = CasePairs(blk[loopEntry].cases)
              /\ Len(Cases(origBB, bbIndex, p)) = Len(blk[loopEntry].cases)
              /\ \A b \in RewrittenIndices :
                    SameNextState(NextStore(p, b), LastStore(At(origBB, b)),
                                  At(bbIndex, b))

\* flatten has finished rewriting with a permutation other than the identity
\* on three dispatched blocks with pairwise different labels, and a one-way
\* block got a mask constant other than the one the identity would give.
C13_Witness ==
    /\ pcF = "return"
    /\ Len(origBB) = 3
    /\ bbSeq # Iota(Len(origBB))
    /\ \A i, j \in 1..Len(bbIndex) : i # j => bbIndex[i] # bbIndex[j]
    /\ \E b \in RewrittenIndices :
          /\ NumSuccessors(OrigTerm(At(origBB, b))) = 1
          /\ LastStore(At(origBB, b)).k2 # NextStore(Iota(Len(origBB)), b).k2
    /\ \E b \in RewrittenIndices : NumSuccessors(OrigTerm(At(origBB, b))) = 2

\* The dispatched blocks whose terminator has no successor.
ReturnBlocks == {b \in Dispatched : NumSuccessors(OrigTerm(b)) = 0}

\* The flattened procedure is about to run a dispatched block whose terminator
\* has no successor.
AtReturnBlock == Runnable /\ status = "run" /\ pc \in ReturnBlocks

\* C14: return blocks are untouched.  From the label draw on, every dispatched
\* block whose terminator has no successor is as it was given: its terminator
\* is in place, it has no store to the state variable and no successor; and
\* the step that executes such a block ends the run in that block, leaving the
\* state variable as it is.
C14_ReturnUntouched ==
    /\ [](((pcF \notin {"validate", "split"}) /\ result # "false") =>
             \A b \in ReturnBlocks :
                /\ blk[b] = OrigTerm(b)
                /\ blk[b].kind = "ret"
                /\ blk[b].sts = <<>>
                /\ blk[b].succ = <<>>)
    /\ [][AtReturnBlock =>
             (status' = "ret" /\ pc' = pc /\ switchVar' = switchVar)]_vars

\* The flattened procedure has gone through the loop header into a dispatched
\* block without successor and has ended there, in a procedure in which
\* another dispatched block was rewritten.
C14_Witness ==
    /\ Runnable
    /\ status = "ret"
    /\ pc \in ReturnBlocks
    /\ lastBB = pc
    /\ load[round] = LabelOf(pc)
    /\ blk[pc] = OrigTerm(pc)
    /\ \E b \in Dispatched : HasNext(b)

\* The flattened procedure is about to run a dispatched block.
AtDispatched == Runnable /\ status = "run" /\ pc \in Dispatched

\* The flattened procedure is about to run the loop header.
AtHeader == Runnable /\ status = "run" /\ pc = loopEntry

\* C15: uniform round trip.  In every run of a flattened procedure, the step
\* that executes a dispatched block either ends the run or leaves control at
\* the loop header, never at a dispatched block; and the step that executes
\* the loop header leaves control at a dispatched block, never at the loop
\* header again.  So between two consecutive dispatched blocks the loop header
\* executes exactly once, also when the first reaches the second by an
\* unconditional branch.
C15_RoundTrip ==
    [][/\ AtDispatched =>
             \/ status' = "ret" /\ pc' = pc
             \/ status' = "run" /\ pc' = loopEntry
       /\ AtHeader => (status' = "run" /\ pc' \in Dispatched)]_vars

\* In a chain of two different blocks joined by an unconditional branch, the
\* first one, entered from the loop header, has run and control is at the loop
\* header again, with the state variable holding the label of the second.
C15_Witness ==
    /\ AtHeader
    /\ lastBB # NoBlock
    /\ NumSuccessors(OrigTerm(lastBB)) = 1
    /\ OnlySuccessor(lastBB) # lastBB
    /\ NumSuccessors(OrigTerm(OnlySuccessor(lastBB))) = 1
    /\ load[round] = LabelOf(lastBB)
    /\ StateVar = LabelOf(OnlySuccessor(lastBB))
    /\ LabelOf(OnlySuccessor(lastBB)) # LabelOf(lastBB)

\* No terminator of the given procedure names the entry block.
NoBranchToEntry ==
    \A b \in DOMAIN orig.blk :
        \A j \in 1..Len(orig.blk[b].succ) : orig.blk[b].succ[j] # insert

\* The two indices flatten computes for the dispatched block at index b of
\* origBB.
FalseIndexOf(b) == SuccIndexFalse(origBB, OrigTerm(At(origBB, b)))

TrueIndexOf(b) == SuccIndexTrue(origBB, bbSeq, b, OrigTerm(At(origBB, b)))

\* The successor of the dispatched block at index b taken when the condition
\* is false (its only successor when it has one).
FalseTargetOf(b) ==
    LET B == OrigTerm(At(origBB, b))
    IN  IF NumSuccessors(B) = 1 THEN B.succ[1] ELSE B.succ[2]

\* C16: label-table bounds.  For every dispatched block with one or two
\* successors, split off the entry block or not, the true and the false index
\* flatten computes are at most the number of dispatched blocks; when no branch
\* of the given procedure names the entry block both are smaller, so the
\* constants of the rewritten block are built from labels of dispatched blocks;
\* the false index equals the number of dispatched blocks exactly when the
\* false target is not a dispatched block, and the true index exactly when the
\* block has two successors and the true target is not a dispatched block.
C16_LabelBounds ==
    Rewriting =>
        \A b \in RewrittenIndices :
            LET i == At(origBB, b)
                f == FalseIndexOf(b)
                t == TrueIndexOf(b)
            IN  /\ f <= Len(origBB)
                /\ t <= Len(origBB)
                /\ Len(bbIndex) = Len(origBB)
                /\ NoBranchToEntry =>
                      /\ f < Len(bbIndex)
                      /\ t < Len(bbIndex)
                      /\ ~ReadsPastEnd(OrigTerm(i), b, origBB, bbSeq)
                      /\ HasNext(i) =>
                            /\ LastStore(i).k1 = ConstFalse(At(bbIndex, b), At(bbIndex, f))
                            /\ LastStore(i).k2 = ConstMask(At(bbIndex, t), At(bbIndex, f))
                /\ f = Len(origBB) <=> FalseTargetOf(b) \notin Dispatched
                /\ t = Len(origBB) <=>
                      (/\ NumSuccessors(OrigTerm(i)) = 2
                       /\ OrigTerm(i).succ[1] \notin Dispatched)

\* flatten has rewritten, in a procedure without a branch to the entry block
\* whose entry block was split, a block with two successors and a block with
\* one successor.
C16_Witness ==
    /\ RewritingDone
    /\ NoBranchToEntry
    /\ tmpBB # NoBlock
    /\ \E b \in RewrittenIndices :
          NumSuccessors(OrigTerm(At(origBB, b))) = 2 /\ HasNext(At(origBB, b))
    /\ \E b \in RewrittenIndices :
          /\ NumSuccessors(OrigTerm(At(origBB, b))) = 1
          /\ HasNext(At(origBB, b))
          /\ TrueIndexOf(b) = Len(origBB) - 1

====
